---- MODULE Spec2Model ----
(***************************************************************************)
(* Project-context lifecycle of the chat control bar                       *)
(* (src/src/components/chat-components/ChatControls.tsx):                  *)
(* reloadCurrentProject, forceRebuildCurrentProjectContext and             *)
(* handleModeChange, run on a single-threaded event loop.  An async        *)
(* function runs without interruption up to its next await; every await    *)
(* is a point where other handlers may run.                                *)
(***************************************************************************)
EXTENDS Naturals, Sequences, FiniteSets, Bags

\* How many reload/rebuild invocations are tracked at once (pending at the
\* prompt, in flight, or finished and still remembered).
MaxOps == 2
\* Number of distinct projects the user can select.
NumProjects == 2

Projects == 1..NumProjects
\* getCurrentProject() returns null when nothing is selected.
NoProject == 0

\* ChainType values; only PROJECT_CHAIN is distinguished by this file.
PROJECT_CHAIN == "PROJECT_CHAIN"
Chains == {PROJECT_CHAIN, "LLM_CHAIN"}

\* Outcomes of an awaited external call: it resolves, or rejects with an error.
RATE_LIMIT == "RateLimit"
OTHER_ERROR == "Other"
PM_UNAVAILABLE == "Copilot plugin or ProjectManager not available."
Outcomes == {"ok", RATE_LIMIT, OTHER_ERROR}

VARIABLES
    currentProject,   \* the shared selection register (NoProject = null)
    projectLoading,   \* the process-wide loading flag
    selectedChain,    \* the chain-type atom
    modeCallbacks,    \* callbacks fired by the latest handleModeChange
    ops               \* the bag of tracked invocations, one record each

vars == <<currentProject, projectLoading, selectedChain, modeCallbacks, ops>>

\* One recorded effect of an operation: a call it made, a notice it showed, or
\* the settlement of a call it awaited.  proj is the project the effect names
\* (NoProject when none), arg a boolean argument (FALSE when none).
Ev(name, p, b) == [ev |-> name, proj |-> p, arg |-> b]
Notice(name, p) == Ev(name, p, FALSE)

\* A fresh invocation record: kind is the function invoked, pc where it is
\* suspended, proj the project it captured, log its effects so far, result
\* and err how it ended, rejected whether its promise rejected.
NewOp == [kind |-> "none", pc |-> "idle", proj |-> NoProject, log |-> <<>>,
          result |-> "none", err |-> "none", rejected |-> FALSE]

Tracked == BagToSet(ops)
Finished == {o \in Tracked : o.pc = "done"}

\* ops with invocation o advanced to o2.
Advance(o, o2) == (ops (-) SetToBag({o})) (+) SetToBag({o2})

\* ops with the new invocation n; when MaxOps are tracked already, a finished
\* one is forgotten to make room.
Admit(n) ==
    IF BagCardinality(ops) < MaxOps
    THEN ops' = ops (+) SetToBag({n})
    ELSE \E d \in Finished : ops' = Advance(d, n)

\* setProjectLoading(v): the flag after the effects in evs have happened, the
\* last write winning.
RECURSIVE FlagAfter(_, _)
FlagAfter(loading, evs) ==
    IF evs = << >> THEN loading
    ELSE FlagAfter(IF Head(evs).ev = "setProjectLoading" THEN Head(evs).arg ELSE loading,
                   Tail(evs))

\* The effects o2 has and its earlier state o had not.
Delta(o, o2) == SubSeq(o2.log, Len(o.log) + 1, Len(o2.log))

\* RateLimitClassifier: whether an error value represents a rate-limit
\* condition.
isRateLimitError(e) == e = RATE_LIMIT

\* Whether execution continues past an await: a rejected promise throws at
\* the await, so the statements after it run only when the call resolved.
awaitContinues(out) == out = "ok"

\* try/catch/finally: o is the operation when its try block ended, having
\* thrown e (threw) or run to its end; c is the catch block's effect and f
\* the finally block's.
Settle(o, threw, e, c, f) ==
    [o EXCEPT !.pc = "done",
              !.log = @ \o (IF threw THEN c.log ELSE << >>) \o f,
              !.result = IF threw THEN "failed" ELSE "success",
              !.err = IF threw THEN e ELSE "none",
              !.rejected = threw /\ c.rethrow]

(***************************************************************************)
(* reloadCurrentProject                                                    *)
(***************************************************************************)

\* Variant: the no-project guard is missing.
reloadHasProjectUnchecked(cp) == TRUE

\* `if (!currentProject)` of reloadCurrentProject.
reloadHasProject(cp) == cp # NoProject

\* Variant: the force-dependent-reload argument is left out.
reloadTryHeadNoForce(p) ==
    << Ev("setProjectLoading", NoProject, TRUE),
       Ev("invalidateMarkdownContext", p, FALSE) >>

\* The synchronous head of the try block: the flag is raised and
\* invalidateMarkdownContext(currentProject, true) is called.
reloadTryHead(p) ==
    << Ev("setProjectLoading", NoProject, TRUE),
       Ev("invalidateMarkdownContext", p, TRUE) >>

\* Variant: the catch block does not classify the error.
reloadCatchUnclassified(e) ==
    [log |-> << Ev("logError", NoProject, FALSE),
                Notice("Failed to reload project context.", NoProject) >>,
     rethrow |-> FALSE]

\* Variant: the catch block rethrows after reporting.
reloadCatchRethrows(e) ==
    [log |-> << Ev("logError", NoProject, FALSE) >> \o
             (IF ~isRateLimitError(e)
              THEN << Notice("Failed to reload project context.", NoProject) >>
              ELSE << >>),
     rethrow |-> TRUE]

\* The catch block: log, then the generic failure notice unless the error is
\* a rate-limit error.  The block does not rethrow.
reloadCatch(e) ==
    [log |-> << Ev("logError", NoProject, FALSE) >> \o
             (IF ~isRateLimitError(e)
              THEN << Notice("Failed to reload project context.", NoProject) >>
              ELSE << >>),
     rethrow |-> FALSE]

\* Variant: the flag is lowered at the end of the try block, not in finally.
reloadFinallyOnSuccessOnly(threw) ==
    IF threw THEN << >> ELSE << Ev("setProjectLoading", NoProject, FALSE) >>

\* The finally block.
reloadFinally(threw) == << Ev("setProjectLoading", NoProject, FALSE) >>

\* Variant: the no-project check sits inside the try block, so the finally
\* block lowers the flag on the no-project path too.
reloadStartGuardInTry(cp) ==
    IF ~reloadHasProject(cp)
    THEN [NewOp EXCEPT !.kind = "reload", !.pc = "done", !.result = "noProject",
                       !.log = << Notice("No project is currently selected to reload.", NoProject) >>
                               \o reloadFinally(FALSE)]
    ELSE [NewOp EXCEPT !.kind = "reload", !.pc = "awaitInvalidate", !.proj = cp,
                       !.log = reloadTryHead(cp)]

\* reloadCurrentProject() from its invocation to its first await (or its
\* return), with cp the value of getCurrentProject().
reloadStart(cp) ==
    IF ~reloadHasProject(cp)
    THEN [NewOp EXCEPT !.kind = "reload", !.pc = "done", !.result = "noProject",
                       !.log = << Notice("No project is currently selected to reload.", NoProject) >>]
    ELSE [NewOp EXCEPT !.kind = "reload", !.pc = "awaitInvalidate", !.proj = cp,
                       !.log = reloadTryHead(cp)]

\* Variant: getProjectContext is called without await, so the success notice
\* is shown before the call has settled.
reloadLookupNotAwaited(o, pluginOk) ==
    LET o1 == [o EXCEPT !.log = @ \o << Ev("getPlugin", NoProject, FALSE) >>]
    IN IF pluginOk
       THEN [o1 EXCEPT !.pc = "awaitRecompute",
                       !.log = @ \o << Ev("getProjectContext", o.proj, FALSE),
                                       Notice("Project context reloaded successfully.", o.proj) >>]
       ELSE Settle(o1, TRUE, PM_UNAVAILABLE, reloadCatch(PM_UNAVAILABLE), reloadFinally(TRUE))

\* `if (plugin && plugin.projectManager)`: the orchestrator lookup, then the
\* recompute call (suspending at its await) or the thrown Error.
reloadLookup(o, pluginOk) ==
    LET o1 == [o EXCEPT !.log = @ \o << Ev("getPlugin", NoProject, FALSE) >>]
    IN IF pluginOk
       THEN [o1 EXCEPT !.pc = "awaitRecompute",
                       !.log = @ \o << Ev("getProjectContext", o.proj, FALSE) >>]
       ELSE Settle(o1, TRUE, PM_UNAVAILABLE, reloadCatch(PM_UNAVAILABLE), reloadFinally(TRUE))

\* From the settlement of `await invalidateMarkdownContext(...)` to the next
\* await or the end.
reloadResumeInvalidate(o, out, pluginOk) ==
    IF awaitContinues(out)
    THEN reloadLookup([o EXCEPT !.log = @ \o << Ev("invalidateMarkdownContext.resolved", o.proj, FALSE) >>],
                      pluginOk)
    ELSE Settle([o EXCEPT !.log = @ \o << Ev("invalidateMarkdownContext.rejected", o.proj, FALSE) >>],
                TRUE, out, reloadCatch(out), reloadFinally(TRUE))

\* The statement after `await getProjectContext(...)`.
reloadSuccessNotice(p) == << Notice("Project context reloaded successfully.", p) >>

\* From the settlement of `await getProjectContext(id)` to the end.
reloadResumeRecompute(o, out) ==
    IF awaitContinues(out)
    THEN Settle([o EXCEPT !.log = @ \o << Ev("getProjectContext.resolved", o.proj, FALSE) >>
                                     \o reloadSuccessNotice(o.proj)],
                FALSE, "none", reloadCatch("none"), reloadFinally(FALSE))
    ELSE Settle([o EXCEPT !.log = @ \o << Ev("getProjectContext.rejected", o.proj, FALSE) >>],
                TRUE, out, reloadCatch(out), reloadFinally(TRUE))

reloadCurrentProject ==
    /\ LET n == reloadStart(currentProject) IN
         /\ Admit(n)
         /\ projectLoading' = FlagAfter(projectLoading, n.log)
    /\ UNCHANGED <<currentProject, selectedChain, modeCallbacks>>

reloadAfterInvalidate ==
    /\ \E o \in Tracked, out \in Outcomes, pluginOk \in BOOLEAN :
         /\ o.kind = "reload"
         /\ o.pc = "awaitInvalidate"
         /\ LET o2 == reloadResumeInvalidate(o, out, pluginOk) IN
              /\ ops' = Advance(o, o2)
              /\ projectLoading' = FlagAfter(projectLoading, Delta(o, o2))
    /\ UNCHANGED <<currentProject, selectedChain, modeCallbacks>>

reloadAfterRecompute ==
    /\ \E o \in Tracked, out \in Outcomes :
         /\ o.kind = "reload"
         /\ o.pc = "awaitRecompute"
         /\ LET o2 == reloadResumeRecompute(o, out) IN
              /\ ops' = Advance(o, o2)
              /\ projectLoading' = FlagAfter(projectLoading, Delta(o, o2))
    /\ UNCHANGED <<currentProject, selectedChain, modeCallbacks>>

(***************************************************************************)
(* forceRebuildCurrentProjectContext                                       *)
(***************************************************************************)

\* Variant: the no-project guard is missing.
rebuildHasProjectUnchecked(cp) == TRUE

\* `if (!currentProject)` of forceRebuildCurrentProjectContext.
rebuildHasProject(cp) == cp # NoProject

\* Variant: the callback's head runs at once instead of on confirmation.
rebuildOnInvokeUnconfirmed(p) ==
    << Ev("ConfirmModal.open", p, FALSE),
       Ev("setProjectLoading", NoProject, TRUE),
       Notice("Force rebuilding context for project", p),
       Ev("resetRateLimitNoticeTimer", NoProject, FALSE),
       Ev("clearForProject", p, FALSE) >>

\* What the function does with a selected project before it returns: it
\* builds the ConfirmModal around the callback and opens it.  The callback
\* is not run here.
rebuildOnInvoke(p) == << Ev("ConfirmModal.open", p, FALSE) >>

\* Variant: the rate-limit notice timer is reset after clearForProject is
\* called instead of before.
rebuildTryHeadResetLate(p) ==
    << Ev("setProjectLoading", NoProject, TRUE),
       Notice("Force rebuilding context for project", p),
       Ev("clearForProject", p, FALSE),
       Ev("resetRateLimitNoticeTimer", NoProject, FALSE) >>

\* The synchronous head of the confirm callback's try block: flag raised,
\* long-duration notice, rate-limit notice timer reset, clearForProject called.
rebuildTryHead(p) ==
    << Ev("setProjectLoading", NoProject, TRUE),
       Notice("Force rebuilding context for project", p),
       Ev("resetRateLimitNoticeTimer", NoProject, FALSE),
       Ev("clearForProject", p, FALSE) >>

\* Variant: the catch block reports nothing to the user.
rebuildCatchSilent(e) ==
    [log |-> << Ev("logError", NoProject, FALSE) >>, rethrow |-> FALSE]

\* Variant: the catch block reports rate-limit errors too.
rebuildCatchUnclassified(e) ==
    [log |-> << Ev("logError", NoProject, FALSE),
                Notice("Failed to force rebuild project context.", NoProject) >>,
     rethrow |-> FALSE]

\* The catch block of the confirm callback.
rebuildCatch(e) ==
    [log |-> << Ev("logError", NoProject, FALSE) >> \o
             (IF ~isRateLimitError(e)
              THEN << Notice("Failed to force rebuild project context.", NoProject) >>
              ELSE << >>),
     rethrow |-> FALSE]

\* Variant: the flag is lowered at the end of the try block, not in finally.
rebuildFinallyOnSuccessOnly(threw) ==
    IF threw THEN << >> ELSE << Ev("setProjectLoading", NoProject, FALSE) >>

\* The finally block of the confirm callback.
rebuildFinally(threw) == << Ev("setProjectLoading", NoProject, FALSE) >>

\* forceRebuildCurrentProjectContext() from its invocation to its return, with
\* cp the value of getCurrentProject().
rebuildStart(cp) ==
    IF ~rebuildHasProject(cp)
    THEN [NewOp EXCEPT !.kind = "rebuild", !.pc = "done", !.result = "noProject",
                       !.log = << Notice("No project is currently selected to rebuild.", NoProject) >>]
    ELSE [NewOp EXCEPT !.kind = "rebuild", !.pc = "prompt", !.proj = cp,
                       !.log = rebuildOnInvoke(cp)]

\* Variant: the confirm callback reads the selection register again instead
\* of using the project captured when the prompt was opened.
rebuildConfirmedRereads(o) ==
    [o EXCEPT !.pc = "awaitClear", !.log = @ \o rebuildTryHead(currentProject)]

\* The confirm callback from its invocation to its first await.
rebuildConfirmed(o) ==
    [o EXCEPT !.pc = "awaitClear", !.log = @ \o rebuildTryHead(o.proj)]

\* Variant: the orchestrator is looked up before the cache-cleared notice is
\* shown, so an unavailable orchestrator fails the operation without it.
rebuildLookupBeforeNotice(o, pluginOk) ==
    LET o1 == [o EXCEPT !.log = @ \o << Ev("getPlugin", NoProject, FALSE) >>]
    IN IF pluginOk
       THEN [o1 EXCEPT !.pc = "awaitRecompute",
                       !.log = @ \o << Notice("Cache for project has been cleared.", o.proj),
                                       Ev("getProjectContext", o.proj, FALSE) >>]
       ELSE Settle(o1, TRUE, PM_UNAVAILABLE, rebuildCatch(PM_UNAVAILABLE), rebuildFinally(TRUE))

\* The statements after `await clearForProject(...)`: the cache-cleared notice,
\* the orchestrator lookup, then the recompute call or the thrown Error.
rebuildLookup(o, pluginOk) ==
    LET o1 == [o EXCEPT !.log = @ \o << Notice("Cache for project has been cleared.", o.proj),
                                       Ev("getPlugin", NoProject, FALSE) >>]
    IN IF pluginOk
       THEN [o1 EXCEPT !.pc = "awaitRecompute",
                       !.log = @ \o << Ev("getProjectContext", o.proj, FALSE) >>]
       ELSE Settle(o1, TRUE, PM_UNAVAILABLE, rebuildCatch(PM_UNAVAILABLE), rebuildFinally(TRUE))

\* From the settlement of `await clearForProject(...)` to the next await or
\* the end.
rebuildResumeClear(o, out, pluginOk) ==
    IF awaitContinues(out)
    THEN rebuildLookup([o EXCEPT !.log = @ \o << Ev("clearForProject.resolved", o.proj, FALSE) >>],
                       pluginOk)
    ELSE Settle([o EXCEPT !.log = @ \o << Ev("clearForProject.rejected", o.proj, FALSE) >>],
                TRUE, out, rebuildCatch(out), rebuildFinally(TRUE))

\* The statement after `await getProjectContext(...)` in the confirm callback.
rebuildSuccessNotice(p) ==
    << Notice("Project context rebuilt successfully from scratch.", p) >>

\* From the settlement of `await getProjectContext(id)` to the end.
rebuildResumeRecompute(o, out) ==
    IF awaitContinues(out)
    THEN Settle([o EXCEPT !.log = @ \o << Ev("getProjectContext.resolved", o.proj, FALSE) >>
                                     \o rebuildSuccessNotice(o.proj)],
                FALSE, "none", rebuildCatch("none"), rebuildFinally(FALSE))
    ELSE Settle([o EXCEPT !.log = @ \o << Ev("getProjectContext.rejected", o.proj, FALSE) >>],
                TRUE, out, rebuildCatch(out), rebuildFinally(TRUE))

forceRebuildCurrentProjectContext ==
    /\ LET n == rebuildStart(currentProject) IN
         /\ Admit(n)
         /\ projectLoading' = FlagAfter(projectLoading, n.log)
    /\ UNCHANGED <<currentProject, selectedChain, modeCallbacks>>

\* ConfirmationPrompt: the user confirms, and the modal invokes the supplied
\* action, which runs up to its first await.
modalConfirm ==
    /\ \E o \in Tracked :
         /\ o.kind = "rebuild"
         /\ o.pc = "prompt"
         /\ LET o2 == rebuildConfirmed(o) IN
              /\ ops' = Advance(o, o2)
              /\ projectLoading' = FlagAfter(projectLoading, Delta(o, o2))
    /\ UNCHANGED <<currentProject, selectedChain, modeCallbacks>>

\* ConfirmationPrompt: the user dismisses the modal; the action is not invoked.
modalCancel ==
    /\ \E o \in Tracked :
         /\ o.kind = "rebuild"
         /\ o.pc = "prompt"
         /\ ops' = Advance(o, [o EXCEPT !.pc = "done", !.result = "cancelled"])
    /\ UNCHANGED <<currentProject, projectLoading, selectedChain, modeCallbacks>>

rebuildAfterClear ==
    /\ \E o \in Tracked, out \in Outcomes, pluginOk \in BOOLEAN :
         /\ o.kind = "rebuild"
         /\ o.pc = "awaitClear"
         /\ LET o2 == rebuildResumeClear(o, out, pluginOk) IN
              /\ ops' = Advance(o, o2)
              /\ projectLoading' = FlagAfter(projectLoading, Delta(o, o2))
    /\ UNCHANGED <<currentProject, selectedChain, modeCallbacks>>

rebuildAfterRecompute ==
    /\ \E o \in Tracked, out \in Outcomes :
         /\ o.kind = "rebuild"
         /\ o.pc = "awaitRecompute"
         /\ LET o2 == rebuildResumeRecompute(o, out) IN
              /\ ops' = Advance(o, o2)
              /\ projectLoading' = FlagAfter(projectLoading, Delta(o, o2))
    /\ UNCHANGED <<currentProject, selectedChain, modeCallbacks>>

(***************************************************************************)
(* ChatControls                                                            *)
(***************************************************************************)

\* handleModeChange(chainType); closeGiven tells whether the optional
\* onCloseProject prop was supplied.  The component binds this closure to no
\* element of its JSX (lines 161-219), so no event of the file itself runs
\* it; it is kept as a step of the environment, which only adds behaviours
\* to the ones the operations are checked against.
handleModeChange(chainType, closeGiven) ==
    /\ selectedChain' = chainType
    /\ IF chainType # PROJECT_CHAIN
       THEN /\ currentProject' = NoProject
            /\ modeCallbacks' = << <<"onModeChange", chainType>> >> \o
                                (IF closeGiven THEN << <<"onCloseProject", chainType>> >> ELSE << >>)
       ELSE /\ UNCHANGED currentProject
            /\ modeCallbacks' = << <<"onModeChange", chainType>> >>
    /\ UNCHANGED <<projectLoading, ops>>

\* CurrentProjectRegister: the user selects a project (setCurrentProject).
selectProject(p) ==
    /\ currentProject' = p
    /\ UNCHANGED <<projectLoading, selectedChain, modeCallbacks, ops>>

Init ==
    /\ currentProject \in {NoProject} \cup Projects
    /\ projectLoading = FALSE
    /\ selectedChain \in Chains
    /\ modeCallbacks = << >>
    /\ ops = EmptyBag

Next ==
    \/ reloadCurrentProject
    \/ reloadAfterInvalidate
    \/ reloadAfterRecompute
    \/ forceRebuildCurrentProjectContext
    \/ modalConfirm
    \/ modalCancel
    \/ rebuildAfterClear
    \/ rebuildAfterRecompute
    \/ \E c \in Chains, g \in BOOLEAN : handleModeChange(c, g)
    \/ \E p \in Projects : selectProject(p)

Spec == Init /\ [][Next]_vars
(***************************************************************************)
(* Vocabulary of the properties                                            *)
(***************************************************************************)

\* An operation is in flight from its set-true step until its finally step.
InFlight(o) == o.pc \in {"awaitInvalidate", "awaitClear", "awaitRecompute"}
InFlightCount ==
    BagCardinality([o \in {x \in Tracked : InFlight(x)} |-> CopiesIn(o, ops)])

\* Positions of the effects of o named in S, and how many there are.
At(o, S) == {k \in 1..Len(o.log) : o.log[k].ev \in S}
Count(o, S) == Cardinality(At(o, S))

CacheCalls == {"invalidateMarkdownContext", "clearForProject"}
Recompute == {"getProjectContext"}
FailureNotices == {"Failed to reload project context.",
                   "Failed to force rebuild project context."}
SuccessNotices == {"Project context reloaded successfully.",
                   "Project context rebuilt successfully from scratch."}
NoProjectNotices == {"No project is currently selected to reload.",
                     "No project is currently selected to rebuild."}
ProgressNotices == {"Force rebuilding context for project",
                    "Cache for project has been cleared."}
AllNotices == FailureNotices \cup SuccessNotices \cup NoProjectNotices \cup ProgressNotices

Failed(o) == o.pc = "done" /\ o.result = "failed"

\* C1: once every started operation has run to its end LoadingFlag is false,
\* whatever the outcomes were, and every step in which an operation ends
\* (success, rate-limit failure, other failure) leaves LoadingFlag false.
C1_LoadingFlagReleased ==
    /\ [](InFlightCount = 0 => projectLoading = FALSE)
    /\ [][InFlightCount' < InFlightCount => projectLoading' = FALSE]_vars

\* Both operations have started and ended in failure, one of them on a
\* rate-limit error, nothing is in flight and the flag is down.
C1_Witness ==
    /\ InFlightCount = 0
    /\ projectLoading = FALSE
    /\ \E o \in Tracked : o.kind = "reload" /\ Failed(o) /\ o.err = RATE_LIMIT
    /\ \E o \in Tracked : o.kind = "rebuild" /\ Failed(o) /\ o.err = PM_UNAVAILABLE

\* C2: whenever LoadingFlag is true, at least one Reload or confirmed
\* ForceRebuild has executed its set-true step and not yet its finally step.
C2_LoadingOnlyWhileInFlight ==
    projectLoading = TRUE => InFlightCount > 0

\* The flag is up while one operation is in flight and another has already
\* ended in failure.
C2_Witness ==
    /\ projectLoading = TRUE
    /\ \E o \in Tracked : o.kind = "rebuild" /\ InFlight(o)
    /\ \E o \in Tracked : Failed(o)

\* C3: ForceRebuild calls clearForProject, and sees it resolve, before every
\* getProjectContext call; Reload calls invalidateMarkdownContext with the
\* force flag true, and sees it resolve, before every getProjectContext call,
\* and never calls clearForProject.
C3_CacheStepBeforeRecompute ==
    \A o \in Tracked :
        /\ o.kind = "rebuild" =>
              \A k \in At(o, Recompute) :
                  \E j \in At(o, {"clearForProject"}) :
                      \E r \in At(o, {"clearForProject.resolved"}) : j < r /\ r < k
        /\ o.kind = "reload" =>
              /\ \A k \in At(o, Recompute) :
                    \E j \in At(o, {"invalidateMarkdownContext"}) :
                        /\ o.log[j].arg = TRUE
                        /\ \E r \in At(o, {"invalidateMarkdownContext.resolved"}) : j < r /\ r < k
              /\ \A j \in At(o, {"invalidateMarkdownContext"}) : o.log[j].arg = TRUE
              /\ At(o, {"clearForProject"}) = {}

\* A Reload and a ForceRebuild have both requested recomputation.
C3_Witness ==
    /\ \E o \in Tracked : o.kind = "reload" /\ At(o, Recompute) # {}
    /\ \E o \in Tracked : o.kind = "rebuild" /\ At(o, Recompute) # {}

\* C4: a ForceRebuild whose prompt is open or was dismissed, so that the
\* confirm action never fired, has made no cache call, requested no
\* recompute and not written LoadingFlag.
C4_NothingBeforeConfirmation ==
    \A o \in Tracked :
        (o.kind = "rebuild" /\ (o.pc = "prompt" \/ o.result = "cancelled")) =>
            /\ At(o, CacheCalls) = {}
            /\ At(o, Recompute) = {}
            /\ At(o, {"setProjectLoading"}) = {}
            /\ ~InFlight(o)

\* One prompt is open and another was dismissed, with the flag down.
C4_Witness ==
    /\ \E o \in Tracked : o.kind = "rebuild" /\ o.pc = "prompt"
    /\ \E o \in Tracked : o.kind = "rebuild" /\ o.result = "cancelled"
    /\ projectLoading = FALSE
\* C5: a Reload invoked with no current project makes no cache call, requests
\* no recompute, shows exactly one notification, the no-project one, and is
\* over.
C5_ReloadWithoutProjectIsNoOp ==
    \A o \in Tracked :
        (o.kind = "reload" /\ o.proj = NoProject) =>
            /\ At(o, CacheCalls) = {}
            /\ At(o, Recompute) = {}
            /\ Count(o, AllNotices) = 1
            /\ Count(o, {"No project is currently selected to reload."}) = 1
            /\ o.pc = "done"

\* A Reload was invoked and returned while no project was selected.
C5_Witness ==
    /\ currentProject = NoProject
    /\ \E o \in Tracked : o.kind = "reload" /\ o.result = "noProject" /\ Len(o.log) = 1

\* C6: a ForceRebuild invoked with no current project never opens the
\* confirmation prompt, makes no cache call, and shows only the no-project
\* notification.
C6_RebuildWithoutProjectShowsNoPrompt ==
    \A o \in Tracked :
        (o.kind = "rebuild" /\ o.proj = NoProject) =>
            /\ At(o, {"ConfirmModal.open"}) = {}
            /\ o.pc # "prompt"
            /\ At(o, CacheCalls) = {}
            /\ Count(o, AllNotices) = 1
            /\ Count(o, {"No project is currently selected to rebuild."}) = 1

\* A ForceRebuild was invoked and returned while no project was selected.
C6_Witness ==
    /\ currentProject = NoProject
    /\ \E o \in Tracked : o.kind = "rebuild" /\ o.result = "noProject" /\ Len(o.log) = 1

\* C7: an operation that failed with an error the classifier reports as a
\* rate-limit error, at the cache step or at the recompute step, has shown no
\* generic failure notification and has logged the error.
C7_RateLimitFailureIsSuppressed ==
    \A o \in Tracked :
        (Failed(o) /\ isRateLimitError(o.err)) =>
            /\ Count(o, FailureNotices) = 0
            /\ Count(o, {"logError"}) = 1

\* A Reload hit a rate-limit error at its cache step and a ForceRebuild hit
\* one at its recompute step.
C7_Witness ==
    /\ \E o \in Tracked : /\ o.kind = "reload" /\ Failed(o) /\ o.err = RATE_LIMIT
                          /\ At(o, {"invalidateMarkdownContext.rejected"}) # {}
    /\ \E o \in Tracked : /\ o.kind = "rebuild" /\ Failed(o) /\ o.err = RATE_LIMIT
                          /\ At(o, {"getProjectContext.rejected"}) # {}

\* C8: an operation that failed with an error that is not a rate-limit error
\* (a rejected cache call, a rejected recompute, or the orchestrator being
\* unavailable) has shown exactly one generic failure notification and no
\* success notification.
C8_OtherFailureIsReportedOnce ==
    \A o \in Tracked :
        (Failed(o) /\ ~isRateLimitError(o.err)) =>
            /\ Count(o, FailureNotices) = 1
            /\ Count(o, SuccessNotices) = 0

\* A ForceRebuild failed because the orchestrator was unavailable and a
\* Reload failed on another error at its recompute step.
C8_Witness ==
    /\ \E o \in Tracked : o.kind = "rebuild" /\ Failed(o) /\ o.err = PM_UNAVAILABLE
    /\ \E o \in Tracked : /\ o.kind = "reload" /\ Failed(o) /\ o.err = OTHER_ERROR
                          /\ At(o, {"getProjectContext.rejected"}) # {}

\* C9 as stated: a failed operation accounts for exactly one user-visible
\* notification, so it shows one notification itself (the generic failure
\* one) when the error is not a rate-limit error, and none itself when it is,
\* the one notification being the rate-limit subsystem's.
C9_Original_ExactlyOneNotification ==
    \A o \in Tracked :
        Failed(o) => Count(o, AllNotices) = (IF isRateLimitError(o.err) THEN 0 ELSE 1)

\* C9, amended: a failed operation shows exactly one generic failure
\* notification when the error is not a rate-limit error and none when it is;
\* for a Reload that is all it shows, while a failed ForceRebuild has also
\* shown its long-duration notice once and its cache-cleared notice once
\* exactly if clearForProject resolved.
C9_OneFailureNotification ==
    \A o \in Tracked :
        Failed(o) =>
            /\ Count(o, FailureNotices) = (IF isRateLimitError(o.err) THEN 0 ELSE 1)
            /\ Count(o, SuccessNotices \cup NoProjectNotices) = 0
            /\ o.kind = "reload" => Count(o, ProgressNotices) = 0
            /\ o.kind = "rebuild" =>
                  /\ Count(o, {"Force rebuilding context for project"}) = 1
                  /\ Count(o, {"Cache for project has been cleared."}) =
                        Count(o, {"clearForProject.resolved"})

\* A ForceRebuild failed after clearForProject resolved, and a Reload failed
\* on a rate-limit error.
C9_Witness ==
    /\ \E o \in Tracked : /\ o.kind = "rebuild" /\ Failed(o)
                          /\ Count(o, {"clearForProject.resolved"}) = 1
                          /\ Count(o, AllNotices) = 3
    /\ \E o \in Tracked : /\ o.kind = "reload" /\ Failed(o) /\ isRateLimitError(o.err)
                          /\ Count(o, AllNotices) = 0

\* C10: whichever step fails (invalidate-markdown, clear-all, orchestrator
\* lookup, recompute), the operation runs its catch and finally blocks and
\* ends normally: its promise is not rejected.
C10_FailuresDoNotPropagate ==
    \A o \in Tracked :
        (o.err # "none") =>
            /\ o.pc = "done"
            /\ o.rejected = FALSE
            /\ o.log[Len(o.log)] = Ev("setProjectLoading", NoProject, FALSE)

\* A Reload failed at the orchestrator lookup and a ForceRebuild at clear-all.
C10_Witness ==
    /\ \E o \in Tracked : o.kind = "reload" /\ Failed(o) /\ o.err = PM_UNAVAILABLE
    /\ \E o \in Tracked : /\ o.kind = "rebuild" /\ Failed(o)
                          /\ At(o, {"clearForProject.rejected"}) # {}
\* How many operations on project p are in flight.
InFlightOn(p) ==
    BagCardinality([o \in {x \in Tracked : InFlight(x) /\ x.proj = p} |-> CopiesIn(o, ops)])

\* C11: at most one reload/rebuild operation is in flight per project: no two
\* operations on the same project have both passed their start step without
\* having reached their end step.
C11_AtMostOneInFlightPerProject ==
    \A p \in Projects : InFlightOn(p) <= 1

\* C12: LoadingFlag signals that an operation is in flight: whenever a Reload
\* or confirmed ForceRebuild is between its set-true step and its finally
\* step, LoadingFlag is true, also while two operations overlap.
C12_LoadingWhileInFlight ==
    InFlightCount > 0 => projectLoading = TRUE
\* The steps of a confirmed ForceRebuild on project p, in order.
RebuildSteps(p) ==
    << Ev("setProjectLoading", NoProject, TRUE),
       Notice("Force rebuilding context for project", p),
       Ev("resetRateLimitNoticeTimer", NoProject, FALSE),
       Ev("clearForProject", p, FALSE),
       Notice("Cache for project has been cleared.", p),
       Ev("getProjectContext", p, FALSE),
       Notice("Project context rebuilt successfully from scratch.", p) >>

\* The steps among the effects of o: what is left of its log without the
\* prompt, the settlements of awaited calls, the orchestrator lookup, the
\* error handling and the finally step.
StepNames ==
    {"setProjectLoading", "Force rebuilding context for project",
     "resetRateLimitNoticeTimer", "clearForProject",
     "Cache for project has been cleared.", "getProjectContext",
     "Project context rebuilt successfully from scratch."}
IsStep(e) == e.ev \in StepNames /\ ~(e.ev = "setProjectLoading" /\ e.arg = FALSE)
StepsOf(o) == SelectSeq(o.log, IsStep)

\* C13: a confirmed ForceRebuild performs its steps in the order set-true,
\* long-duration notice, timer reset, clear-all, cache-cleared notice,
\* recompute, success notice: what it has done so far is always a prefix of
\* that list, a successful one has done all of it, and the cache-cleared
\* notice comes only after clear-all resolved, never when it rejected.
C13_RebuildStepOrder ==
    \A o \in Tracked :
        (o.kind = "rebuild" /\ o.proj # NoProject) =>
            LET done == StepsOf(o)
                all == RebuildSteps(o.proj)
            IN /\ Len(done) <= Len(all)
               /\ done = SubSeq(all, 1, Len(done))
               /\ o.result = "success" => done = all
               /\ InFlight(o) => Len(done) >= 4
               /\ \A k \in At(o, {"Cache for project has been cleared."}) :
                     \E r \in At(o, {"clearForProject.resolved"}) : r < k
               /\ At(o, {"clearForProject.rejected"}) # {} =>
                     At(o, {"Cache for project has been cleared."}) = {}

\* One ForceRebuild has run all its steps and another has failed at
\* clear-all.
C13_Witness ==
    /\ \E o \in Tracked : o.kind = "rebuild" /\ o.result = "success" /\ Len(StepsOf(o)) = 7
    /\ \E o \in Tracked : /\ o.kind = "rebuild" /\ Failed(o)
                          /\ At(o, {"clearForProject.rejected"}) # {}
\* C14: an operation shows its success notification exactly if its recompute
\* call resolved: once, after the resolution, naming its project; an
\* operation that failed (at the cache step, the orchestrator lookup or the
\* recompute) shows none, and a successful one shows no failure notification.
C14_SuccessNoticeIffRecomputeResolved ==
    \A o \in Tracked :
        /\ Count(o, SuccessNotices) = Count(o, {"getProjectContext.resolved"})
        /\ Count(o, SuccessNotices) <= 1
        /\ \A k \in At(o, SuccessNotices) :
              /\ o.log[k].proj = o.proj
              /\ \E r \in At(o, {"getProjectContext.resolved"}) : r < k
        /\ Failed(o) => Count(o, SuccessNotices) = 0
        /\ o.result = "success" =>
              Count(o, SuccessNotices) = 1 /\ Count(o, FailureNotices) = 0

\* A Reload has succeeded and a ForceRebuild has failed at its recompute.
C14_Witness ==
    /\ \E o \in Tracked : o.kind = "reload" /\ o.result = "success"
    /\ \E o \in Tracked : /\ o.kind = "rebuild" /\ Failed(o)
                          /\ At(o, {"getProjectContext.rejected"}) # {}
\* C15: an operation that could not locate the orchestrator has failed as a
\* generic failure: it requested no recompute, showed exactly one generic
\* failure notification and no success notification, and ended by lowering
\* LoadingFlag; its cache step had been performed: invalidate-markdown
\* resolved for a Reload, clear-all resolved and the cache-cleared
\* notification was shown for a ForceRebuild.
C15_OrchestratorUnavailable ==
    \A o \in Tracked :
        (o.err = PM_UNAVAILABLE) =>
            /\ Failed(o)
            /\ At(o, Recompute) = {}
            /\ Count(o, FailureNotices) = 1
            /\ Count(o, SuccessNotices) = 0
            /\ o.log[Len(o.log)] = Ev("setProjectLoading", NoProject, FALSE)
            /\ o.kind = "reload" =>
                  /\ Count(o, {"invalidateMarkdownContext.resolved"}) = 1
                  /\ Count(o, ProgressNotices) = 0
            /\ o.kind = "rebuild" =>
                  /\ Count(o, {"clearForProject.resolved"}) = 1
                  /\ Count(o, {"Cache for project has been cleared."}) = 1

\* A Reload and a ForceRebuild have both found the orchestrator unavailable,
\* and the flag is down.
C15_Witness ==
    /\ \E o \in Tracked : o.kind = "reload" /\ o.err = PM_UNAVAILABLE
    /\ \E o \in Tracked : o.kind = "rebuild" /\ o.err = PM_UNAVAILABLE
    /\ projectLoading = FALSE
(***************************************************************************)
(* Termination                                                             *)
(***************************************************************************)

\* The handlers with only finitely many invocations: an operation is started
\* only while fewer than MaxOps are tracked, and none is forgotten.  The chat
\* stays in project mode: a mode change writes only the selection register
\* and the chain atom, which no suspended operation reads.
NextBounded ==
    \/ BagCardinality(ops) < MaxOps /\ reloadCurrentProject
    \/ BagCardinality(ops) < MaxOps /\ forceRebuildCurrentProjectContext
    \/ reloadAfterInvalidate
    \/ reloadAfterRecompute
    \/ modalConfirm
    \/ modalCancel
    \/ rebuildAfterClear
    \/ rebuildAfterRecompute
    \/ \E p \in Projects : selectProject(p)

\* Every awaited external call eventually settles, and the event loop then
\* resumes the operation suspended on it.  Nothing obliges the user to invoke
\* an operation, answer a prompt or select a project.
Fairness ==
    /\ WF_vars(reloadAfterInvalidate)
    /\ WF_vars(reloadAfterRecompute)
    /\ WF_vars(rebuildAfterClear)
    /\ WF_vars(rebuildAfterRecompute)

\* The initial states with the chat in project mode.
InitProjectMode == Init /\ selectedChain = PROJECT_CHAIN

LiveSpec == InitProjectMode /\ [][NextBounded]_vars /\ Fairness

\* C16: when every awaited call eventually settles, every operation in
\* flight reaches its end, and once no further operation is started
\* LoadingFlag is false for good: from some point on nothing is in flight
\* and the flag is down.
C16_OperationsRunToTheEnd ==
    <>[](InFlightCount = 0 /\ projectLoading = FALSE)

\* MaxOps operations were started and have all ended, one in success and one
\* in failure.
C16_Witness ==
    /\ BagCardinality(ops) = MaxOps
    /\ InFlightCount = 0
    /\ \A o \in Tracked : o.pc = "done" /\ o.proj # NoProject /\ o.result # "cancelled"
    /\ \E o \in Tracked : o.result = "success"
    /\ \E o \in Tracked : o.result = "failed"
    /\ projectLoading = FALSE
\* C17: each operation acts on the project it captured at invocation: all
\* its cache and recompute calls name the one project it holds, whatever the
\* selection register says by then, and the project a newly started Reload
\* or newly opened prompt holds is the one that was current at that step.
C17_ActsOnCapturedProject ==
    /\ [](\A o \in Tracked :
            \A k \in At(o, CacheCalls \cup Recompute) :
                o.log[k].proj = o.proj /\ o.proj # NoProject)
    /\ [][\A n \in BagToSet(ops') :
            (CopiesIn(n, ops') > CopiesIn(n, ops) /\ n.pc \in {"awaitInvalidate", "prompt"})
                => n.proj = currentProject]_vars

\* A Reload of project 1 and a ForceRebuild of project 2 have both reached
\* their recompute call, and the selection register has been cleared since.
C17_Witness ==
    /\ currentProject = NoProject
    /\ \E o \in Tracked : /\ o.kind = "reload" /\ o.proj = 1
                          /\ \E k \in At(o, Recompute) : o.log[k].proj = 1
    /\ \E o \in Tracked : /\ o.kind = "rebuild" /\ o.proj = 2
                          /\ \E k \in At(o, Recompute) : o.log[k].proj = 2
\* An invocation that did nothing: it found no project, or its prompt is
\* open or was dismissed.
NoOp(o) == o.result \in {"noProject", "cancelled"} \/ o.pc = "prompt"

\* C18: the no-op paths never write LoadingFlag: a step in which a Reload or
\* ForceRebuild returns for want of a project, a prompt is opened, or a prompt
\* is dismissed leaves the flag as it was, so it cannot lower the flag of an
\* operation in flight; and such an invocation has no flag write among its
\* effects.
C18_NoOpPathsLeaveFlagAlone ==
    /\ [](\A o \in Tracked : NoOp(o) => At(o, {"setProjectLoading"}) = {})
    /\ [][(\E n \in BagToSet(ops') : CopiesIn(n, ops') > CopiesIn(n, ops) /\ NoOp(n))
            => projectLoading' = projectLoading]_vars

\* A Reload has returned for want of a project while another operation is in
\* flight with the flag up.
C18_Witness ==
    /\ projectLoading = TRUE
    /\ currentProject = NoProject
    /\ \E o \in Tracked : InFlight(o)
    /\ \E o \in Tracked : o.kind = "reload" /\ o.result = "noProject"
====
